---- MODULE Spec2Model ----
(***************************************************************************)
(* Model of the jsPsych plugin 'canvas-button-response'                    *)
(* (src/jspsych-canvas-button-response.js).                                *)
(*                                                                         *)
(* One trial instance is modelled: the configuration object the host       *)
(* passes to plugin.trial, the host container (display_element), the       *)
(* closure variables of plugin.trial (start_time, response), the timeouts  *)
(* registered with jsPsych.pluginAPI, and the calls made to                *)
(* jsPsych.finishTrial.  The environment is the browser event loop: the    *)
(* clock advances, the user clicks elements that are in the container,     *)
(* and registered timeouts fire once they are due.                         *)
(***************************************************************************)
EXTENDS Integers, Sequences, FiniteSets, TLC

(***************************************************************************)
(* Bounds of the exploration.                                              *)
(***************************************************************************)
MaxTime   == 3000       \* the clock does not advance beyond this
MaxStart  == 450        \* trial() is called no later than this
MaxClicks == 2          \* click events dispatched per trial

\* the instants at which events are observed: the possible starts, and
\* for each start a moment before, at and after each configured delay
Instants ==
    {t \in {0, 450, 900, 1250, 1700, 2450, 2900, 3000} : t <= MaxTime}

\* how long the drawing callback may take to draw the stimulus
DrawTimes == {450}

(***************************************************************************)
(* JavaScript values: null, undefined, false, numbers and strings, kept    *)
(* apart by a type tag so that "1" and 1 are different values.             *)
(***************************************************************************)
Null      == [type |-> "null",      num |-> 0, str |-> ""]
Undefined == [type |-> "undefined", num |-> 0, str |-> ""]
False     == [type |-> "boolean",   num |-> 0, str |-> ""]
Num(n)    == [type |-> "number",    num |-> n, str |-> ""]
Str(s)    == [type |-> "string",    num |-> 0, str |-> s]

Digits == <<"0", "1", "2", "3", "4", "5", "6", "7", "8", "9">>

RECURSIVE NumToStr(_)
\* '...' + i : the decimal representation of a non-negative integer
NumToStr(n) ==
    IF n < 10 THEN Digits[n + 1]
    ELSE NumToStr(n \div 10) \o Digits[(n % 10) + 1]

(***************************************************************************)
(* Configurations (the `trial` object).  A button template is a sequence   *)
(* of markup tokens; "%choice%" is the placeholder.                        *)
(***************************************************************************)
DefaultButtonHtml == <<"<button class=jspsych-btn>", "%choice%", "</button>">>
SpanButtonHtml    == <<"<span class=opt>", "%choice%", "</span>">>

DefaultCanvasWidth  == 300
DefaultCanvasHeight == 150

GeneratedCanvasId == "jspsych-canvas-button-response-canvas"
CustomCanvasId    == "myCanvas"
CustomCanvasHTML  == "<canvas id=myCanvas>"

ChoiceLists ==
    { [defined |-> FALSE, items |-> <<>>],
      [defined |-> TRUE,  items |-> <<>>],
      [defined |-> TRUE,  items |-> <<"Low confidence">>],
      [defined |-> TRUE,  items |-> <<"Low confidence", "High confidence">>] }

ButtonHtmls ==
    { [isArray |-> FALSE, tpls |-> <<DefaultButtonHtml>>],
      [isArray |-> FALSE, tpls |-> <<SpanButtonHtml>>],
      [isArray |-> TRUE,  tpls |-> <<DefaultButtonHtml>>],
      [isArray |-> TRUE,  tpls |-> <<DefaultButtonHtml, SpanButtonHtml>>] }

CanvasSettings ==
    { [canvasId |-> False,               canvasHTML |-> Null],
      [canvasId |-> Str(CustomCanvasId), canvasHTML |-> Str(CustomCanvasHTML)] }

StimulusDurations == {Null, Num(800)}
TrialDurations    == {Null, Num(2000)}

TrialConfigs ==
    { [stimulus            |-> st,
       canvasId            |-> cv.canvasId,
       canvasHTML          |-> cv.canvasHTML,
       canvasWidth         |-> DefaultCanvasWidth,
       canvasHeight        |-> DefaultCanvasHeight,
       choices             |-> ch,
       button_html         |-> bh,
       stimulus_duration   |-> sd,
       trial_duration      |-> td,
       response_ends_trial |-> ret] :
      st \in {"function", "undefined"}, cv \in CanvasSettings,
      ch \in ChoiceLists, bh \in ButtonHtmls,
      sd \in StimulusDurations, td \in TrialDurations, ret \in BOOLEAN }

VARIABLES
    trial,          \* the configuration object passed to plugin.trial
    pc,             \* "ready": trial() not yet called; "running": trial()
                    \* returned; "threw": trial() raised an exception
    now,            \* Date.now()
    display,        \* display_element: the host container and its contents
    start_time,     \* closure variable start_time
    response,       \* closure variable response
    timeouts,       \* timeouts registered with jsPsych.pluginAPI, pending
    finished,       \* calls of jsPsych.finishTrial, in order
    console,        \* console.error calls and uncaught exceptions
    stimulusCalls,  \* the calls of trial.stimulus, in order
    drawTime,       \* the time trial.stimulus takes to draw
    clickLog,       \* click events delivered to a listener, in order
    fired           \* timeout callbacks that have run

vars == <<trial, pc, now, display, start_time, response, timeouts, finished,
          console, stimulusCalls, drawTime, clickLog, fired>>

(***************************************************************************)
(* The container.  content is "prior" while it still holds what the host   *)
(* left in it, "rendered" once trial() has assigned its markup, "empty"    *)
(* after end_trial cleared it.  Each wrapper is one                        *)
(* div.jspsych-canvas-button-response-button; disabled is the attribute    *)
(* of the <button> inside it, if there is one.                             *)
(***************************************************************************)
PriorDisplay ==
    [content |-> "prior", canvas |-> Null, responded |-> 0,
     hidden |-> FALSE, wrappers |-> <<>>]

EmptyDisplay ==
    [content |-> "empty", canvas |-> Null, responded |-> 0,
     hidden |-> FALSE, wrappers |-> <<>>]

UnsetResponse == [defined |-> FALSE, rt |-> Undefined, button |-> Undefined]

TypeError   == "Uncaught TypeError"
LengthError == "console.error: The length of the button_html array does not equal the length of the choices array"

\* the state the handlers read and write
Current ==
    [trial |-> trial, pc |-> pc, now |-> now, display |-> display,
     start_time |-> start_time, response |-> response,
     timeouts |-> timeouts, finished |-> finished, console |-> console,
     stimulusCalls |-> stimulusCalls, drawTime |-> drawTime]

\* an uncaught exception ends the running handler
Throw(s) == [s EXCEPT !.console = Append(@, TypeError)]

\* str.replace(/%choice%/g, label)
Replace(tpl, label) ==
    [j \in 1..Len(tpl) |-> IF tpl[j] = "%choice%" THEN label ELSE tpl[j]]

\* does the markup contain a <button> element
HasButton(inner) ==
    \E j \in 1..Len(inner) : inner[j] = "<button class=jspsych-btn>"

\* lines 133-142: the canvas markup; assigns trial.canvasId when it is false
CanvasOf(t) ==
    IF t.canvasId # False
    THEN t.canvasHTML
    ELSE Str("<canvas id=" \o GeneratedCanvasId
             \o " height=" \o NumToStr(t.canvasHeight)
             \o " width=" \o NumToStr(t.canvasWidth) \o "></canvas>")

CanvasIdOf(t) ==
    IF t.canvasId # False THEN t.canvasId ELSE Str(GeneratedCanvasId)

\* variant of ButtonTemplates that takes the list of templates whatever
\* its length
ButtonTemplates_unchecked(t) ==
    IF ~t.choices.defined
    THEN [ok |-> FALSE, logged |-> FALSE, buttons |-> <<>>]
    ELSE IF t.button_html.isArray
         THEN [ok |-> TRUE,
               logged |-> Len(t.button_html.tpls) # Len(t.choices.items),
               buttons |-> t.button_html.tpls]
         ELSE [ok |-> TRUE, logged |-> FALSE,
               buttons |-> [i \in 1..Len(t.choices.items) |->
                               t.button_html.tpls[1]]]

\* lines 146-157: the template of each button.  ok is FALSE when reading
\* trial.choices.length raises; logged is TRUE when the mismatch is logged.
ButtonTemplates(t) ==
    IF ~t.choices.defined
    THEN [ok |-> FALSE, logged |-> FALSE, buttons |-> <<>>]
    ELSE IF t.button_html.isArray
         THEN IF Len(t.button_html.tpls) = Len(t.choices.items)
              THEN [ok |-> TRUE, logged |-> FALSE,
                    buttons |-> t.button_html.tpls]
              ELSE [ok |-> TRUE, logged |-> TRUE, buttons |-> <<>>]
         ELSE [ok |-> TRUE, logged |-> FALSE,
               buttons |-> [i \in 1..Len(t.choices.items) |->
                               t.button_html.tpls[1]]]

\* variant of ButtonWrappers that numbers the wrappers from 1
ButtonWrappers_fromOne(choices, buttons) ==
    [k \in 1..Len(choices) |->
        [id         |-> k - 1,
         dataChoice |-> NumToStr(k),
         inner      |-> Replace(buttons[k], choices[k]),
         disabled   |-> FALSE,
         listener   |-> FALSE]]

\* lines 160-163: one wrapper per choice, numbered from 0
ButtonWrappers(choices, buttons) ==
    [k \in 1..Len(choices) |->
        [id         |-> k - 1,
         dataChoice |-> NumToStr(k - 1),
         inner      |-> Replace(buttons[k], choices[k]),
         disabled   |-> FALSE,
         listener   |-> FALSE]]

\* lines 176-181: a click listener on each element found by its id
AddListeners(ws, n) ==
    [k \in 1..Len(ws) |->
        IF ws[k].id \in 0..(n - 1) THEN [ws[k] EXCEPT !.listener = TRUE]
        ELSE ws[k]]

\* variant of ArmTimeouts that registers the end-of-trial callback with
\* no delay
ArmTimeouts_noDelay(s) ==
    LET hide == IF s.trial.stimulus_duration # Null
                THEN {[cb |-> "hide",
                       due |-> s.now + s.trial.stimulus_duration.num]}
                ELSE {}
        end  == IF s.trial.trial_duration # Null
                THEN {[cb |-> "end_trial", due |-> s.now]}
                ELSE {}
    IN  [s EXCEPT !.timeouts = @ \cup hide \cup end]

\* lines 238-249: the two optional timeouts
ArmTimeouts(s) ==
    LET hide == IF s.trial.stimulus_duration # Null
                THEN {[cb |-> "hide",
                       due |-> s.now + s.trial.stimulus_duration.num]}
                ELSE {}
        end  == IF s.trial.trial_duration # Null
                THEN {[cb |-> "end_trial",
                       due |-> s.now + s.trial.trial_duration.num]}
                ELSE {}
    IN  [s EXCEPT !.timeouts = @ \cup hide \cup end]

\* line 232: jsPsych.finishTrial(trial_data); the entry also records when
\* the call was made and what the host finds in the container and among
\* the pending timeouts at that moment
finishTrial(s, trial_data) ==
    [s EXCEPT !.finished = Append(@, [data    |-> trial_data,
                                      at      |-> s.now,
                                      content |-> s.display.content,
                                      pending |-> Cardinality(s.timeouts)])]

\* variant of end_trial that leaves the registered timeouts pending
end_trial_keepTimeouts(s) ==
    LET trial_data == [rt             |-> s.response.rt,
                       stimulus       |-> s.trial.stimulus,
                       button_pressed |-> s.response.button]
        s2 == [s EXCEPT !.display = EmptyDisplay]
    IN  finishTrial(s2, trial_data)

\* variant of end_trial that leaves the rendered markup in the container
end_trial_keepDisplay(s) ==
    LET s1 == [s EXCEPT !.timeouts = {}]
        trial_data == [rt             |-> s1.response.rt,
                       stimulus       |-> s1.trial.stimulus,
                       button_pressed |-> s1.response.button]
    IN  finishTrial(s1, trial_data)

\* variant of end_trial that cancels only the trial_duration timeout
end_trial_keepHide(s) ==
    LET s1 == [s EXCEPT !.timeouts = {t \in @ : t.cb = "hide"}]
        trial_data == [rt             |-> s1.response.rt,
                       stimulus       |-> s1.trial.stimulus,
                       button_pressed |-> s1.response.button]
        s2 == [s1 EXCEPT !.display = EmptyDisplay]
    IN  finishTrial(s2, trial_data)

\* variant of end_trial that hands the result over before it clears the
\* container
end_trial_finishFirst(s) ==
    LET s1 == [s EXCEPT !.timeouts = {}]
        trial_data == [rt             |-> s1.response.rt,
                       stimulus       |-> s1.trial.stimulus,
                       button_pressed |-> s1.response.button]
        s2 == finishTrial(s1, trial_data)
    IN  [s2 EXCEPT !.display = EmptyDisplay]

\* lines 216-233
end_trial(s) ==
    LET s1 == [s EXCEPT !.timeouts = {}]
        trial_data == [rt             |-> s1.response.rt,
                       stimulus       |-> s1.trial.stimulus,
                       button_pressed |-> s1.response.button]
        s2 == [s1 EXCEPT !.display = EmptyDisplay]
    IN  finishTrial(s2, trial_data)

\* lines 203-208: disable every <button> inside a wrapper
DisableButtons(ws) ==
    [k \in 1..Len(ws) |->
        IF HasButton(ws[k].inner) THEN [ws[k] EXCEPT !.disabled = TRUE]
        ELSE ws[k]]

\* variant of after_response that records the button but not the time
after_response_noRt(s, choice) ==
    LET s1 == [s EXCEPT !.response.button = Str(choice)]
    IN  IF s1.display.content # "rendered"
        THEN Throw(s1)
        ELSE LET s2 == [s1 EXCEPT !.display.responded = @ + 1,
                                  !.display.wrappers  = DisableButtons(@)]
             IN  IF s2.trial.response_ends_trial THEN end_trial(s2) ELSE s2

\* variant of after_response that never ends the trial
after_response_noEnd(s, choice) ==
    LET rt == s.now - s.start_time
        s1 == [s EXCEPT !.response.button = Str(choice),
                        !.response.rt     = Num(rt)]
    IN  IF s1.display.content # "rendered"
        THEN Throw(s1)
        ELSE [s1 EXCEPT !.display.responded = @ + 1,
                        !.display.wrappers  = DisableButtons(@)]

\* variant of after_response that ends the trial whatever the flag
after_response_alwaysEnd(s, choice) ==
    LET rt == s.now - s.start_time
        s1 == [s EXCEPT !.response.button = Str(choice),
                        !.response.rt     = Num(rt)]
    IN  IF s1.display.content # "rendered"
        THEN Throw(s1)
        ELSE end_trial([s1 EXCEPT !.display.responded = @ + 1,
                                  !.display.wrappers  = DisableButtons(@)])

\* lines 191-213
after_response(s, choice) ==
    LET rt == s.now - s.start_time
        s1 == [s EXCEPT !.response.button = Str(choice),
                        !.response.rt     = Num(rt)]
    IN  IF s1.display.content # "rendered"
        THEN Throw(s1)
        ELSE LET s2 == [s1 EXCEPT !.display.responded = @ + 1,
                                  !.display.wrappers  = DisableButtons(@)]
             IN  IF s2.trial.response_ends_trial THEN end_trial(s2) ELSE s2

\* variant of hide_stimulus that also ends the trial
hide_stimulus_ends(s) ==
    IF s.display.content # "rendered"
    THEN Throw(s)
    ELSE end_trial([s EXCEPT !.display.hidden = TRUE])

\* variant of hide_stimulus that also disables the buttons
hide_stimulus_disables(s) ==
    IF s.display.content # "rendered"
    THEN Throw(s)
    ELSE [s EXCEPT !.display.hidden = TRUE,
                   !.display.wrappers = DisableButtons(@)]

\* lines 239-241: the stimulus_duration callback
hide_stimulus(s) ==
    IF s.display.content # "rendered"
    THEN Throw(s)
    ELSE [s EXCEPT !.display.hidden = TRUE]

\* variant of callStimulus that passes the canvas markup instead of the id
callStimulus_markup(s) ==
    [s EXCEPT !.stimulusCalls =
                  Append(@, [id      |-> s.display.canvas,
                             content |-> s.display.content,
                             canvas  |-> s.display.canvas,
                             pending |-> Cardinality(s.timeouts),
                             begin   |-> s.now,
                             end     |-> s.now + s.drawTime]),
              !.now = @ + s.drawTime]

\* line 188: trial.stimulus(trial.canvasId).  The entry records the
\* argument, what the callback finds in the container and among the
\* pending timeouts, and when it is entered and left; the clock advances
\* while it draws.
callStimulus(s) ==
    [s EXCEPT !.stimulusCalls =
                  Append(@, [id      |-> s.trial.canvasId,
                             content |-> s.display.content,
                             canvas  |-> s.display.canvas,
                             pending |-> Cardinality(s.timeouts),
                             begin   |-> s.now,
                             end     |-> s.now + s.drawTime]),
              !.now = @ + s.drawTime]

\* lines 132-250
plugin_trial(s) ==
    LET t1   == [s.trial EXCEPT !.canvasId = CanvasIdOf(s.trial)]
        s1   == [s EXCEPT !.trial = t1]
        bt   == ButtonTemplates(t1)
        s2   == IF bt.logged
                THEN [s1 EXCEPT !.console = Append(@, LengthError)]
                ELSE s1
    IN  IF ~bt.ok
        THEN [Throw(s2) EXCEPT !.pc = "threw"]
        ELSE IF Len(t1.choices.items) > Len(bt.buttons)
        THEN [Throw(s2) EXCEPT !.pc = "threw"]
        ELSE
        LET ws == ButtonWrappers(t1.choices.items, bt.buttons)
            s3 == [s2 EXCEPT
                     !.display = [content   |-> "rendered",
                                  canvas    |-> CanvasOf(s.trial),
                                  responded |-> 0,
                                  hidden    |-> FALSE,
                                  wrappers  |-> AddListeners(ws,
                                                 Len(t1.choices.items))],
                     !.start_time = s.now,
                     !.response = [defined |-> TRUE, rt |-> Null,
                                   button |-> Null]]
        IN  IF t1.stimulus # "function"
            THEN [Throw(s3) EXCEPT !.pc = "threw"]
            ELSE [ArmTimeouts(callStimulus(s3)) EXCEPT !.pc = "running"]

(***************************************************************************)
(* Actions.                                                                *)
(***************************************************************************)
Install(s) ==
    /\ trial' = s.trial
    /\ pc' = s.pc
    /\ display' = s.display
    /\ start_time' = s.start_time
    /\ response' = s.response
    /\ timeouts' = s.timeouts
    /\ finished' = s.finished
    /\ console' = s.console
    /\ stimulusCalls' = s.stimulusCalls
    /\ now' = s.now

Init ==
    /\ trial \in TrialConfigs
    /\ pc = "ready"
    /\ now = 0
    /\ display = PriorDisplay
    /\ start_time = 0
    /\ response = UnsetResponse
    /\ timeouts = {}
    /\ finished = <<>>
    /\ console = <<>>
    /\ stimulusCalls = <<>>
    /\ drawTime \in DrawTimes
    /\ clickLog = <<>>
    /\ fired = <<>>

\* the clock advances, by any amount
Tick ==
    /\ \E t \in Instants :
          /\ t > now
          /\ pc = "ready" => t <= MaxStart
          /\ now' = t
    /\ UNCHANGED <<trial, pc, display, start_time, response, timeouts,
                   finished, console, stimulusCalls, drawTime, clickLog,
                   fired>>

\* the host calls plugin.trial(display_element, trial)
Trial ==
    /\ pc = "ready"
    /\ Install(plugin_trial(Current))
    /\ UNCHANGED <<drawTime, clickLog, fired>>

\* the user clicks wrapper k, on the wrapper itself or on the element
\* inside it; a disabled <button> dispatches no click event
Click ==
    /\ display.content = "rendered"
    /\ Len(clickLog) < MaxClicks
    /\ \E k \in 1..Len(display.wrappers), target \in {"wrapper", "inner"} :
          /\ display.wrappers[k].listener
          /\ target = "inner" => ~display.wrappers[k].disabled
          /\ Install(after_response(Current, display.wrappers[k].dataChoice))
          /\ clickLog' = Append(clickLog,
                                [wrapper |-> k, at |-> now,
                                 choice |-> display.wrappers[k].dataChoice])
    /\ UNCHANGED <<drawTime, fired>>

\* a pending timeout is due; timeouts fire in the order they fall due
Due(t) ==
    /\ t \in timeouts
    /\ now >= t.due
    /\ \A u \in timeouts : u.due >= t.due

HideTimeout ==
    /\ \E t \in timeouts :
          /\ Due(t) /\ t.cb = "hide"
          /\ Install(hide_stimulus([Current EXCEPT !.timeouts = @ \ {t}]))
          /\ fired' = Append(fired, t.cb)
    /\ UNCHANGED <<drawTime, clickLog>>

EndTimeout ==
    /\ \E t \in timeouts :
          /\ Due(t) /\ t.cb = "end_trial"
          /\ Install(end_trial([Current EXCEPT !.timeouts = @ \ {t}]))
          /\ fired' = Append(fired, t.cb)
    /\ UNCHANGED <<drawTime, clickLog>>

Next == Tick \/ Trial \/ Click \/ HideTimeout \/ EndTimeout

Spec == Init /\ [][Next]_vars

\* registered timeouts fire and the clock advances
FairSpec ==
    Spec /\ WF_vars(Tick) /\ WF_vars(HideTimeout) /\ WF_vars(EndTimeout)

TypeOK ==
    /\ pc \in {"ready", "running", "threw"}
    /\ now \in Instants
    /\ Len(finished) <= 2

(***************************************************************************)
(* Vocabulary of the properties.                                           *)
(***************************************************************************)
\* end_trial has run: the host has been handed a result
Completed == Len(finished) > 0

\* a value that has not been set
Unset(v) == v \in {Null, Undefined}

\* the timeout callbacks of one kind that have run
FiredOf(cb) == {j \in 1..Len(fired) : fired[j] = cb}

\* the reaction time the first delivered click reports
FirstClickRt == clickLog[1].at - start_time

\* the configuration is valid: choices are there and not empty, and a list
\* of templates has one template per choice
ValidConfig ==
    /\ trial.choices.defined
    /\ Len(trial.choices.items) >= 1
    /\ trial.button_html.isArray =>
          Len(trial.button_html.tpls) = Len(trial.choices.items)

\* a list of templates whose length is not the number of choices
Mismatch ==
    /\ trial.choices.defined
    /\ trial.button_html.isArray
    /\ Len(trial.button_html.tpls) # Len(trial.choices.items)

\* a required field is missing
MissingRequired == trial.stimulus = "undefined" \/ ~trial.choices.defined

AnyListener(d) == \E k \in 1..Len(d.wrappers) : d.wrappers[k].listener

(***************************************************************************)
(* C1.  At most one response is recorded per trial: whatever clicks        *)
(* follow, the response record holds the button and the reaction time of   *)
(* the first click delivered to a listener.  Stated of a trial that        *)
(* trial() has started.                                                    *)
(***************************************************************************)
C1_FirstResponseWins ==
    (pc = "running" /\ clickLog # <<>>) =>
        /\ response.button = Str(clickLog[1].choice)
        /\ response.rt = Num(FirstClickRt)

(***************************************************************************)
(* C2.  The reaction time and the button of the response record are both   *)
(* unset or both set, between any two events; so are rt and button_pressed *)
(* of every result handed to jsPsych.finishTrial.                          *)
(***************************************************************************)
C2_SetTogether ==
    /\ Unset(response.rt) <=> Unset(response.button)
    /\ \A j \in 1..Len(finished) :
          Unset(finished[j].data.rt) <=> Unset(finished[j].data.button_pressed)

C2_Witness ==
    /\ Len(finished) = 1
    /\ finished[1].data.rt.type = "number"
    /\ finished[1].data.button_pressed.type = "string"
    /\ ~Unset(response.rt)

(***************************************************************************)
(* C3.  With response_ends_trial, the step that delivers a click also      *)
(* ends the trial: the container is empty and jsPsych.finishTrial has been *)
(* called when the handler returns, and it is never called a second time.  *)
(***************************************************************************)
C3_ClickEndsTrial ==
    [][ /\ Len(finished') <= 1
        /\ (trial.response_ends_trial /\ Len(clickLog') > Len(clickLog)) =>
              /\ Len(finished) = 0
              /\ Len(finished') = 1
              /\ display'.content = "empty" ]_vars

C3_Witness ==
    /\ trial.response_ends_trial
    /\ Len(clickLog) = 1
    /\ Len(finished) = 1
    /\ finished[1].at = clickLog[1].at

(***************************************************************************)
(* C4.  With a trial_duration D and no click, a trial that trial() has     *)
(* started is completed eventually, not before D has elapsed since the     *)
(* start, and the result has rt and button_pressed null.                   *)
(***************************************************************************)
C4_DurationCapEndsTrial ==
    /\ (pc = "running" /\ trial.trial_duration # Null /\ clickLog = <<>>)
          ~> (Completed \/ clickLog # <<>>)
    /\ [](  (Completed /\ trial.trial_duration # Null /\ clickLog = <<>>) =>
               /\ finished[1].at >= start_time + trial.trial_duration.num
               /\ finished[1].data.rt = Null
               /\ finished[1].data.button_pressed = Null )

C4_Witness ==
    /\ Completed
    /\ clickLog = <<>>
    /\ trial.trial_duration = Num(2000)
    /\ FiredOf("end_trial") # {}
    /\ finished[1].data.rt = Null

(***************************************************************************)
(* C5 as stated.  With a trial_duration D, once a click has been delivered *)
(* less than D after the start, the trial_duration callback never runs and *)
(* the result carries that click.                                          *)
(***************************************************************************)
C5_Original ==
    (trial.trial_duration # Null /\ clickLog # <<>>
        /\ FirstClickRt < trial.trial_duration.num) =>
        /\ FiredOf("end_trial") = {}
        /\ \A j \in 1..Len(finished) :
              /\ finished[j].data.rt = Num(FirstClickRt)
              /\ finished[j].data.button_pressed = Str(clickLog[1].choice)

(***************************************************************************)
(* C5 amended.  With a trial_duration D and response_ends_trial, once a    *)
(* click has been delivered less than D after the start, the trial is      *)
(* completed with the reaction time and the button of that click, and the  *)
(* trial_duration callback never runs.                                     *)
(***************************************************************************)
C5_ClickBeatsDurationCap ==
    (trial.trial_duration # Null /\ trial.response_ends_trial
        /\ clickLog # <<>> /\ FirstClickRt < trial.trial_duration.num) =>
        /\ FiredOf("end_trial") = {}
        /\ Len(finished) = 1
        /\ finished[1].data.rt = Num(FirstClickRt)
        /\ finished[1].data.button_pressed = Str(clickLog[1].choice)

C5_Witness ==
    /\ trial.trial_duration = Num(2000)
    /\ trial.response_ends_trial
    /\ pc = "running"
    /\ clickLog # <<>>
    /\ FirstClickRt = 450
    /\ now >= start_time + 2000
    /\ Len(finished) = 1

(***************************************************************************)
(* C6.  Once end_trial has run nothing changes the response record, the    *)
(* container or the calls of jsPsych.finishTrial any more, so that         *)
(* jsPsych.finishTrial is called at most once.                             *)
(***************************************************************************)
C6_CompletedIsTerminal ==
    [][ /\ Len(finished') <= 1
        /\ Completed =>
              /\ response' = response
              /\ display' = display
              /\ finished' = finished
              /\ timeouts' = {} ]_vars

C6_Witness ==
    /\ Completed
    /\ now > finished[1].at
    /\ trial.stimulus_duration # Null
    /\ trial.trial_duration # Null
    /\ now >= start_time + trial.trial_duration.num
    /\ finished[1].at < start_time + trial.stimulus_duration.num

(***************************************************************************)
(* C7.  With response_ends_trial and a cap of 2000, a click on the button  *)
(* with index i, t < 2000 after the start, gives a result whose rt is t    *)
(* and whose button_pressed is the number i.                               *)
(***************************************************************************)
C7_ResultOfClick ==
    (pc = "running" /\ trial.response_ends_trial
        /\ trial.trial_duration = Num(2000)
        /\ clickLog # <<>> /\ FirstClickRt < 2000 /\ Completed) =>
        /\ finished[1].data.rt = Num(FirstClickRt)
        /\ finished[1].data.button_pressed = Num(clickLog[1].wrapper - 1)

(***************************************************************************)
(* C8.  For a valid configuration, trial() renders one wrapper per choice; *)
(* the k-th wrapper (counting from 0) has id and data-choice k and a click *)
(* listener, and a click on it reports k.                                  *)
(***************************************************************************)
C8_OneButtonPerChoice ==
    ValidConfig =>
        /\ (pc # "ready" /\ ~Completed) => display.content = "rendered"
        /\ display.content = "rendered" =>
              /\ Len(display.wrappers) = Len(trial.choices.items)
              /\ \A k \in 1..Len(display.wrappers) :
                    /\ display.wrappers[k].id = k - 1
                    /\ display.wrappers[k].dataChoice = NumToStr(k - 1)
                    /\ display.wrappers[k].listener
        /\ \A j \in 1..Len(clickLog) :
              clickLog[j].choice = NumToStr(clickLog[j].wrapper - 1)

C8_Witness ==
    /\ ValidConfig
    /\ trial.button_html.isArray
    /\ display.content = "rendered"
    /\ Len(display.wrappers) = 2
    /\ clickLog # <<>>
    /\ clickLog[1].wrapper = 2
    /\ clickLog[1].choice = "1"

(***************************************************************************)
(* C9.  When a list of templates does not have one template per choice,    *)
(* trial() reports the configuration error and stops: the container keeps  *)
(* its contents, no listener and no timeout is installed, and trial() does *)
(* not return normally.  Stated of configurations that have a drawing      *)
(* callback.                                                               *)
(***************************************************************************)
C9_MismatchFailsFast ==
    [][ (pc = "ready" /\ pc' # "ready" /\ Mismatch
            /\ trial.stimulus = "function") =>
            /\ pc' = "threw"
            /\ \E j \in 1..Len(console') : console'[j] = LengthError
            /\ display' = display
            /\ ~AnyListener(display')
            /\ timeouts' = {} ]_vars

(***************************************************************************)
(* C10.  When the drawing callback or the choices are missing, trial()     *)
(* fails before it renders: when it raises, the container has its old      *)
(* contents, no click listener is attached and no timeout is registered.   *)
(* Stated of configurations whose templates match their choices.           *)
(***************************************************************************)
C10_MissingFieldFailsBeforeRender ==
    [][ (pc = "ready" /\ pc' # "ready" /\ MissingRequired /\ ~Mismatch) =>
            /\ pc' = "threw"
            /\ display' = display
            /\ ~AnyListener(display')
            /\ timeouts' = {} ]_vars

(***************************************************************************)
(* Further vocabulary.                                                     *)
(***************************************************************************)
\* the click delivered last
LastClick == clickLog[Len(clickLog)]

\* how many times a timeout callback of one kind has run, in a log
CountOf(log, cb) == Cardinality({j \in 1..Len(log) : log[j] = cb})

\* the step runs the callback of a timeout of one kind
Fires(cb) == fired' = Append(fired, cb)

\* the pending timeouts of one kind
PendingOf(ts, cb) == {t \in ts : t.cb = cb}

(***************************************************************************)
(* C11.  Without a trial_duration and without a click the trial is never   *)
(* ended: jsPsych.finishTrial is not called and the container is not       *)
(* cleared, whether or not the stimulus_duration callback has run.         *)
(***************************************************************************)
C11_NoCapNoClickNeverEnds ==
    (trial.trial_duration = Null /\ clickLog = <<>>) =>
        /\ finished = <<>>
        /\ display.content # "empty"
        /\ pc = "running" => display.content = "rendered"

C11_Witness ==
    /\ pc = "running"
    /\ trial.trial_duration = Null
    /\ clickLog = <<>>
    /\ CountOf(fired, "hide") = 1
    /\ display.hidden
    /\ now >= 2900
    /\ finished = <<>>

(***************************************************************************)
(* C12.  Without response_ends_trial a click records its reaction time and *)
(* its button and leaves the trial running: jsPsych.finishTrial is not     *)
(* called and the container stays rendered.  The trial is ended only by    *)
(* the trial_duration callback, with the response record as it then is     *)
(* (that of the click delivered last, if any); without a trial_duration it *)
(* is never ended.                                                         *)
(***************************************************************************)
C12_ClickRecordsOnly ==
    [][ ~trial.response_ends_trial =>
          /\ Len(clickLog') > Len(clickLog) =>
                /\ finished' = finished
                /\ display'.content = "rendered"
                /\ response'.rt = Num(now - start_time)
                /\ response'.button = Str(clickLog'[Len(clickLog')].choice)
          /\ finished' # finished =>
                /\ Fires("end_trial")
                /\ trial.trial_duration # Null
                /\ Len(finished') = 1
                /\ finished'[1].data.rt = response.rt
                /\ finished'[1].data.button_pressed = response.button
                /\ clickLog # <<>> =>
                      /\ finished'[1].data.rt =
                            Num(LastClick.at - start_time)
                      /\ finished'[1].data.button_pressed =
                            Str(LastClick.choice) ]_vars

C12_Witness ==
    /\ ~trial.response_ends_trial
    /\ pc = "running"
    /\ Len(clickLog) = 1
    /\ Len(finished) = 1
    /\ finished[1].at > clickLog[1].at
    /\ CountOf(fired, "end_trial") = 1
    /\ finished[1].data.rt = Num(FirstClickRt)
    /\ finished[1].data.button_pressed = Str("1")

(***************************************************************************)
(* C13.  Once a click has been delivered, every wrapper of the rendered    *)
(* group is disabled, whichever button was clicked and whatever the        *)
(* template, and the click handler does not run again in this trial.       *)
(***************************************************************************)
C13_AllChoicesDisabled ==
    (pc = "running" /\ clickLog # <<>>) =>
        /\ Len(clickLog) = 1
        /\ \A k \in 1..Len(display.wrappers) : display.wrappers[k].disabled

(***************************************************************************)
(* C14.  end_trial leaves no timeout pending: after it no timeout callback *)
(* runs, so the trial_duration callback cannot end the trial again and the *)
(* stimulus_duration callback never finds the container cleared.           *)
(***************************************************************************)
C14_EndCancelsTimeouts ==
    [][ /\ Len(finished') > 0 => timeouts' = {}
        /\ Len(finished) > 0 => fired' = fired
        /\ Fires("hide") => display.content = "rendered" ]_vars

C14_Witness ==
    /\ pc = "running"
    /\ trial.stimulus_duration # Null
    /\ trial.trial_duration # Null
    /\ Len(clickLog) = 1
    /\ Len(finished) = 1
    /\ fired = <<>>
    /\ timeouts = {}
    /\ now >= 2900

(***************************************************************************)
(* C15.  The stimulus_duration callback runs at most once, and all it does *)
(* is hide the stimulus: the response record, the buttons, the pending     *)
(* trial_duration timeout and the calls of jsPsych.finishTrial are as they *)
(* were.                                                                   *)
(***************************************************************************)
C15_HideOnlyHides ==
    [][ /\ CountOf(fired', "hide") <= 1
        /\ Fires("hide") =>
              /\ display' = [display EXCEPT !.hidden = TRUE]
              /\ display'.content = "rendered"
              /\ response' = response
              /\ finished' = finished /\ finished = <<>>
              /\ PendingOf(timeouts', "end_trial") =
                    PendingOf(timeouts, "end_trial")
              /\ PendingOf(timeouts', "hide") = {}
              /\ pc' = pc /\ trial' = trial /\ start_time' = start_time
              /\ console' = console ]_vars

C15_Witness ==
    /\ pc = "running"
    /\ fired = <<"hide">>
    /\ display.hidden
    /\ ~Unset(response.rt)
    /\ \E k \in 1..Len(display.wrappers) : ~display.wrappers[k].disabled
    /\ PendingOf(timeouts, "end_trial") # {}

(***************************************************************************)
(* C16.  Whenever jsPsych.finishTrial is called, the timeouts have been    *)
(* cancelled, the result has been built from the response record and the   *)
(* container has been cleared: the host finds the container empty and no   *)
(* timeout of the trial pending.                                           *)
(***************************************************************************)
C16_SinkSeesTrialCleared ==
    \A j \in 1..Len(finished) :
        /\ finished[j].content = "empty"
        /\ finished[j].pending = 0
        /\ finished[j].data.rt = response.rt
        /\ finished[j].data.button_pressed = response.button
        /\ finished[j].data.stimulus = trial.stimulus

C16_Witness ==
    /\ Len(finished) = 1
    /\ trial.stimulus_duration # Null
    /\ trial.trial_duration # Null
    /\ fired = <<>>
    /\ finished[1].at < start_time + trial.stimulus_duration.num
    /\ finished[1].content = "empty"
    /\ finished[1].pending = 0
    /\ finished[1].data.button_pressed = Str("0")

C18_TimedFromPresentation ==
    pc = "running" =>
        /\ start_time >= stimulusCalls[1].end
        /\ clickLog # <<>> =>
              response.rt.num <= LastClick.at - stimulusCalls[1].end

(***************************************************************************)
(* C19 as stated.  With a list of templates whose length is not the number *)
(* of choices, and one choice or more, trial() logs the error and goes on: *)
(* it renders the stimulus with an empty button group, calls the drawing   *)
(* callback and registers the timeouts.                                    *)
(***************************************************************************)
C19_Original ==
    [][ (pc = "ready" /\ pc' # "ready" /\ Mismatch
            /\ Len(trial.choices.items) >= 1
            /\ trial.stimulus = "function") =>
            /\ \E j \in 1..Len(console') : console'[j] = LengthError
            /\ pc' = "running"
            /\ display'.content = "rendered"
            /\ display'.wrappers = <<>>
            /\ Len(stimulusCalls') = 1 ]_vars

(***************************************************************************)
(* C19 amended.  With a list of templates whose length is not the number   *)
(* of choices, and one choice or more, trial() logs the error and then     *)
(* raises a TypeError while it builds the first button: the container      *)
(* keeps its contents, the drawing callback is not called and no timeout   *)
(* is registered.                                                          *)
(***************************************************************************)
C19_MismatchLogsThenThrows ==
    [][ (pc = "ready" /\ pc' # "ready" /\ Mismatch
            /\ Len(trial.choices.items) >= 1) =>
            /\ console' = <<LengthError, TypeError>>
            /\ pc' = "threw"
            /\ display' = display
            /\ stimulusCalls' = <<>>
            /\ timeouts' = {}
            /\ response' = response ]_vars

C19_Witness ==
    /\ Mismatch
    /\ Len(trial.choices.items) = 2
    /\ trial.stimulus = "function"
    /\ pc = "threw"
    /\ console = <<LengthError, TypeError>>
    /\ display = PriorDisplay

(***************************************************************************)
(* C20.  trial() leaves the configuration object as it was, so that        *)
(* running the canvas selection again on it, without custom markup, gives  *)
(* the generated canvas that was rendered the first time.                  *)
(***************************************************************************)
C20_ConfigUnchanged ==
    [][ (pc = "ready" /\ pc' # "ready") =>
            /\ trial' = trial
            /\ (trial.canvasHTML = Null /\ display'.content = "rendered") =>
                  CanvasOf(trial') = display'.canvas ]_vars

====
